---- MODULE Spec2Model ----
(***************************************************************************)
(* Model of the consensus judge of                                         *)
(* scripts/bench-postprocess-scripts/llm-judges/llm_judge.py:              *)
(* evaluate_with_openai samples the judge three times, each sample with a  *)
(* bounded retry on unparseable text, runs one tie-break sample when the   *)
(* three scores are pairwise distinct, and returns the most common score.  *)
(*                                                                         *)
(* Scores are Python floats.  They are represented in fixed point: the     *)
(* integer n stands for the number n / Den, so that non-integral scores    *)
(* such as 1.5 are values of the model.                                    *)
(***************************************************************************)
EXTENDS Integers, Sequences, FiniteSets, TLC

\* ---------------------------------------------------------------- bounds
Den == 2            \* fixed-point denominator of a score
MaxRubric == 2      \* largest rubric_max_score tried
MaxPrior == 1       \* most llm_judge_score entries left by earlier runs

\* ------------------------------------------------------ program constants
NumRuns == 3        \* for i in range(3)
MaxRetriesSix == 5 + 1
MaxRetriesSeven == 5 + 2
MaxRetries == 5     \* max_retries = 5

\* Fixed-point image of the Python number n.
Fix(n) == n * Den

\* -------------------------------------------------------------- exceptions
\* An exception is its class and its message; the message is a sequence of
\* fragments, so that "x in str(e)" and f"prefix: {str(e)}" are computable.
Exc(t, m) == [type |-> t, msg |-> m]
NoExc == Exc("None", <<>>)
KeyName == "OPENAI_API_KEY"

ConfigErr == Exc("ValueError",
    <<KeyName, " environment variable is not set, but is needed to run this evaluation.">>)

\* "OPENAI_API_KEY" in str(e)
MentionsKey(e) == \E k \in DOMAIN e.msg : e.msg[k] = KeyName

\* -------------------------------------------------------- judge responses
\* What one call of client.chat.completions.create can produce.
\*   api_error   the call raises exc
\*   no_content  message.content is None
\*   not_json    content is not JSON
\*   not_object  content is JSON but not an object (array, number, ...)
\*   no_score    a JSON object without the key "score"
\*   null_score  "score": null
\*   str_score   "score": a string that is not a number (text)
\*   number      "score": the number score
Resp(k, s, t, e) == [kind |-> k, score |-> s, text |-> t, exc |-> e]
NoResponse == Resp("none", 0, "", NoExc)

ApiErrors == { Exc("APIConnectionError", <<"Connection error.">>),
               Exc("AuthenticationError", <<"Incorrect API key provided; check ", KeyName>>) }

\* The numbers tried as "score": every integer of the widest rubric, one
\* non-integral number, one number below 0 and one above the widest rubric.
RawScores ==
    {Fix(n) : n \in 0 .. MaxRubric} \cup {Fix(1) + 1, 0 - 1, Fix(MaxRubric) + 1}
ScoreTexts == {"high", KeyName}

Responses ==
    { Resp("api_error", 0, "", e) : e \in ApiErrors }
    \cup { Resp(k, 0, "", NoExc) : k \in {"no_content", "not_json", "not_object", "no_score", "null_score"} }
    \cup { Resp("str_score", 0, t, NoExc) : t \in ScoreTexts }
    \cup { Resp("number", s, "", NoExc) : s \in RawScores }

\* ------------------------------------------------------------ the parser
PyMin(a, b) == IF b < a THEN b ELSE a
PyMax(a, b) == IF b > a THEN b ELSE a

\* a clamp that truncates the score to an integer first, as int(score) would
ClampTruncate(s, M) == PyMax(0, PyMin((s \div Den) * Den, Fix(M)))

\* a clamp that lost its lower bound
ClampNoFloor(s, M) == PyMin(s, Fix(M))

\* score = max(0.0, min(score, rubric_max_score))
Clamp(s, M) == PyMax(0, PyMin(s, Fix(M)))

\* a default of 1.0 for a missing "score"
DefaultScoreOne == Fix(1)

\* evaluation.get("score", 0.0): the score of an object without the key
DefaultScore == Fix(0)

\* The outcome of one round trip: a clamped score, or the exception raised
\* and the place that raised it ("call": line 82, "extract": line 91,
\* "parse": lines 93-95, the only place inside the inner try).
Outcome(st, s, w, e) == [status |-> st, score |-> s, where |-> w, exc |-> e]

\* Lines 82-96.
RoundTrip(r, M) ==
    CASE r.kind = "api_error" ->
            Outcome("raise", 0, "call", r.exc)
      [] r.kind = "no_content" ->
            Outcome("raise", 0, "extract",
                    Exc("AttributeError", <<"'NoneType' object has no attribute 'strip'">>))
      [] r.kind = "not_json" ->
            Outcome("raise", 0, "parse",
                    Exc("JSONDecodeError", <<"Expecting value: line 1 column 1 (char 0)">>))
      [] r.kind = "not_object" ->
            Outcome("raise", 0, "parse",
                    Exc("AttributeError", <<"'list' object has no attribute 'get'">>))
      [] r.kind = "no_score" ->
            Outcome("score", Clamp(DefaultScore, M), "parse", NoExc)
      [] r.kind = "null_score" ->
            Outcome("raise", 0, "parse",
                    Exc("TypeError", <<"float() argument must be a string or a real number, not 'NoneType'">>))
      [] r.kind = "str_score" ->
            Outcome("raise", 0, "parse",
                    Exc("ValueError", <<"could not convert string to float: ", r.text>>))
      [] r.kind = "number" ->
            Outcome("score", Clamp(r.score, M), "parse", NoExc)

\* an inner handler that catches only the JSON error
CaughtJsonOnly(o) ==
    /\ o.status = "raise"
    /\ o.where = "parse"
    /\ o.exc.type = "JSONDecodeError"

\* an inner handler that covers the service call too
CaughtAnywhere(o) ==
    /\ o.status = "raise"
    /\ o.exc.type \in {"JSONDecodeError", "ValueError", "APIConnectionError", "AuthenticationError"}

\* except (json.JSONDecodeError, ValueError) of the inner try
Caught(o) ==
    /\ o.status = "raise"
    /\ o.where = "parse"
    /\ o.exc.type \in {"JSONDecodeError", "ValueError"}

\* raise ValueError(f"Failed to parse ... after {max_retries} attempts: {str(e)}")
ParseFailure(what, e) ==
    Exc("ValueError", <<"Failed to parse ", what, " response after 5 attempts: ">> \o e.msg)

\* an outermost handler that wraps every exception
OuterAlwaysWrap(e) == Exc("ValueError", <<"OpenAI evaluation failed: ">> \o e.msg)

\* The outermost handler, lines 160-164.
Outer(e) ==
    IF MentionsKey(e) THEN e
    ELSE Exc("ValueError", <<"OpenAI evaluation failed: ">> \o e.msg)

\* a credential check that tests only for None
KeyMissingNoneOnly(k) == k = "unset"

\* not api_key
KeyMissing(k) == k \in {"unset", ""}

\* ------------------------------------------------- collections.Counter
RECURSIVE FirstSeen(_)
\* the distinct elements of s in the order of their first occurrence
FirstSeen(s) ==
    IF s = <<>> THEN <<>>
    ELSE LET f == FirstSeen(SubSeq(s, 1, Len(s) - 1))
             x == s[Len(s)]
         IN IF \E k \in DOMAIN f : f[k] = x THEN f ELSE Append(f, x)

Count(s, v) == Cardinality({k \in DOMAIN s : s[k] = v})

\* Counter(scores): the <<score, count>> pairs in insertion order
Counter(s) == [k \in DOMAIN FirstSeen(s) |-> <<FirstSeen(s)[k], Count(s, FirstSeen(s)[k])>>]

\* max(score_counts.values())
MaxCount(c) == CHOOSE n \in {c[k][2] : k \in DOMAIN c} : \A k \in DOMAIN c : c[k][2] <= n

\* the count of the most common score instead of the score: [0][1] for [0][0]
MostCommonCount(c) == MaxCount(c)

\* the first key of the counter, whatever its count
MostCommonFirstKey(c) == c[1][1]

\* the last pair with the largest count
MostCommonLast(c) ==
    LET k == CHOOSE j \in DOMAIN c :
                /\ c[j][2] = MaxCount(c)
                /\ \A h \in DOMAIN c : c[h][2] = MaxCount(c) => j >= h
    IN c[k][1]

\* score_counts.most_common(1)[0][0]: the first pair with the largest count
MostCommon(c) ==
    LET k == CHOOSE j \in DOMAIN c :
                /\ c[j][2] = MaxCount(c)
                /\ \A h \in DOMAIN c : c[h][2] = MaxCount(c) => j <= h
    IN c[k][1]

\* a tie-break when two of the three scores agree
NeedsTieBreakOnPair(s, c) == Len(s) = 3 /\ MaxCount(c) = 2

\* a tie-break whenever the three scores are not unanimous
NeedsTieBreakUnlessUnanimous(s, c) == Len(s) = 3 /\ MaxCount(c) <= 2

\* if len(scores) == 3 and max(score_counts.values()) == 1
NeedsTieBreak(s, c) == Len(s) = 3 /\ MaxCount(c) = 1

\* the counts left as they were before the tie-break sample
RecountStale(s) == Counter(SubSeq(s, 1, Len(s) - 1))

\* score_counts = Counter(scores) after the tie-break sample, line 139
Recount(s) == Counter(s)

\* ------------------------------------------------------------------ state
VARIABLES
    pc,                 \* position in evaluate_with_openai
    api_key,            \* os.getenv("OPENAI_API_KEY"): "unset", "" or a key
    rubric_max_score,
    i,                  \* the loop variable of "for i in range(3)"
    retry_count,
    scores,
    score_counts,
    response,           \* the last response of the judge
    result,             \* the value returned
    error,              \* the exception that leaves evaluate_with_openai
    cause,              \* the exception as first raised, and by what
    raisedBy,
    calls,              \* round trips issued
    waits,              \* time.sleep(1) calls
    slotLog,            \* the current slot's round trips so far: "ok", "malformed", "failed"
    input_prompt,       \* the prompt built at line 72
    request,            \* the last request sent to the judge
    main_pc,            \* position in main
    disk,               \* eval-results.json in the working directory
    output_exists,      \* whether the output file to evaluate exists
    eval_results,       \* main's loaded copy of the metrics list
    exit_status,        \* the status main completes with
    writes,             \* times eval-results.json was opened for writing
    calc_pc,            \* position in main of calculate_final_scores_vibes.py
    final_score         \* the value of calculate_score, as the sum it divides by 4.0

\* the state of evaluate_with_openai
evalVars == <<pc, api_key, rubric_max_score, i, retry_count, scores, score_counts,
              response, result, error, cause, raisedBy, calls, waits, slotLog,
              input_prompt, request>>

\* The rubric text and the text under evaluation that main passes on.
EvaluationPrompt == "rubric"
ResponseText == "subject"

\* Lines 58-72: the rubric, the output instructions for scores up to M, and
\* the text to evaluate.
BuildPrompt(p, t, M) == [prompt |-> p, instructions |-> M, text |-> t]
NoPrompt == BuildPrompt("", "", 0)

Req(m, c, t) == [model |-> m, messages |-> <<[role |-> "user", content |-> c]>>, temperature |-> t]
NoRequest == Req("", NoPrompt, "")

\* Lines 82-88: the request of a sampling round trip.
SampleRequest(ip) == Req("gpt-4o", ip, "0.9")

\* a tie-break asked at temperature 0
TieBreakRequestCold(ip) == Req("gpt-4o", ip, "0")

\* Lines 124-130: the request of a tie-break round trip.
TieBreakRequest(ip) == Req("gpt-4o", ip, "0.9")

\* the state of main
mainVars == <<main_pc, disk, output_exists, eval_results, exit_status, writes>>

\* the state of calculate_final_scores_vibes.py
calcVars == <<calc_pc, final_score>>

vars == <<evalVars, mainVars, calcVars>>

\* A metrics entry [name, {kind: value}] of eval-results.json.
Metric(n, k, v) == <<n, k, v>>

\* eval-results.json: absent, or a metrics list.
File(x, m) == [exists |-> x, metrics |-> m]

InitialMetrics ==
    { <<Metric("used_fetch_tool", "Boolean", 1), Metric("valid_markdown_format", "Boolean", 0)>> }

Running == 0 - 1

\* ------------------------------------ calculate_final_scores_vibes.py
\* The float that get_metric_value makes of an entry, or NoScore for None.
\* A Float entry holds a fixed-point number, an Integer or Boolean entry a
\* plain one.
MetricFloat(e) ==
    CASE e[2] = "Float" -> e[3]
      [] e[2] = "Integer" -> Fix(e[3])
      [] e[2] = "Boolean" -> (IF e[3] # 0 THEN Fix(1) ELSE Fix(0))
      [] OTHER -> 0 - 1

Readable(e, name) == e[1] = name /\ e[2] \in {"Float", "Integer", "Boolean"}

\* a lookup that returns the last entry of the name
GetMetricValueLast(metrics, name) ==
    IF \E k \in DOMAIN metrics : Readable(metrics[k], name)
    THEN LET k == CHOOSE j \in DOMAIN metrics :
                    /\ Readable(metrics[j], name)
                    /\ \A h \in DOMAIN metrics : Readable(metrics[h], name) => h <= j
         IN MetricFloat(metrics[k])
    ELSE 0 - 1

\* get_metric_value: the first entry of the name that holds a Float, an
\* Integer or a Boolean, as a float; None (NoScore) without one.
GetMetricValue(metrics, name) ==
    IF \E k \in DOMAIN metrics : Readable(metrics[k], name)
    THEN LET k == CHOOSE j \in DOMAIN metrics :
                    /\ Readable(metrics[j], name)
                    /\ \A h \in DOMAIN metrics : Readable(metrics[h], name) => j <= h
         IN MetricFloat(metrics[k])
    ELSE 0 - 1

\* 1.0 if x else 0.0
Flag(x) == IF x # (0 - 1) /\ x # 0 THEN Fix(1) ELSE Fix(0)

EvalNames == {"blog_summary", "restaurant_research", "squirrel_census"}

\* calculate_score: the sum that is divided by 4.0, or the ValueError.
CalculateScore(eval_name, metrics) ==
    LET llm_judge_score == GetMetricValue(metrics, "llm_judge_score")
        used_fetch_tool == Flag(GetMetricValue(metrics, "used_fetch_tool"))
        valid_markdown_format == Flag(GetMetricValue(metrics, "valid_markdown_format"))
    IN IF llm_judge_score = 0 - 1 THEN [ok |-> FALSE, sum |-> 0]
       ELSE IF eval_name \in {"blog_summary", "restaurant_research"}
       THEN [ok |-> TRUE, sum |-> llm_judge_score + used_fetch_tool + valid_markdown_format]
       ELSE [ok |-> FALSE, sum |-> 0]

NoScore == 0 - 1

Init ==
    /\ pc = "start"
    /\ api_key \in {"unset", "", "sk-test"}
    /\ rubric_max_score \in 1 .. MaxRubric
    /\ i = 0
    /\ retry_count = 0
    /\ scores = <<>>
    /\ score_counts = <<>>
    /\ response = NoResponse
    /\ result = NoScore
    /\ error = NoExc
    /\ cause = NoExc
    /\ raisedBy = "none"
    /\ calls = 0
    /\ waits = 0
    /\ slotLog = <<>>
    /\ input_prompt = NoPrompt
    /\ request = NoRequest
    /\ main_pc = "load"
    /\ disk \in {File(FALSE, <<>>)} \cup {File(TRUE, m) : m \in InitialMetrics}
    /\ output_exists \in BOOLEAN
    /\ eval_results = <<>>
    /\ exit_status = Running
    /\ writes = 0
    /\ calc_pc = "idle"
    /\ final_score = NoScore

\* The judge step called without --rubric-max-score: the option's default.
\* What ends a run (the slots, the retry budget, the tie-break) does not read
\* the rubric maximum.
DefaultRubric == 2

FairInit ==
    /\ pc = "start"
    /\ api_key \in {"unset", "", "sk-test"}
    /\ rubric_max_score = DefaultRubric
    /\ i = 0
    /\ retry_count = 0
    /\ scores = <<>>
    /\ score_counts = <<>>
    /\ response = NoResponse
    /\ result = NoScore
    /\ error = NoExc
    /\ cause = NoExc
    /\ raisedBy = "none"
    /\ calls = 0
    /\ waits = 0
    /\ slotLog = <<>>
    /\ input_prompt = NoPrompt
    /\ request = NoRequest
    /\ main_pc = "load"
    /\ disk \in {File(FALSE, <<>>)} \cup {File(TRUE, m) : m \in InitialMetrics}
    /\ output_exists \in BOOLEAN
    /\ eval_results = <<>>
    /\ exit_status = Running
    /\ writes = 0
    /\ calc_pc = "idle"
    /\ final_score = NoScore

\* The judge step run again on a file that earlier runs have completed: both
\* files exist, the key is set, and the metrics list ends with the
\* llm_judge_score entries of up to MaxPrior earlier runs (PriorScore(k) is
\* what run k recorded).  The rubric maximum is what --rubric-max-score
\* gives, one beyond MaxRubric included.
PriorScore(k) == Fix(k - 1)

RECURSIVE Judged(_, _)
Judged(m, k) ==
    IF k = 0 THEN m
    ELSE Append(Judged(m, k - 1), Metric("llm_judge_score", "Float", PriorScore(k)))

PipelineMetrics ==
    { Judged(<<Metric("used_fetch_tool", "Boolean", 1),
               Metric("valid_markdown_format", "Boolean", 1)>>, k) : k \in 0 .. MaxPrior }

PipelineInit ==
    /\ pc = "start"
    /\ api_key = "sk-test"
    /\ rubric_max_score \in MaxRubric .. MaxRubric + 1
    /\ i = 0
    /\ retry_count = 0
    /\ scores = <<>>
    /\ score_counts = <<>>
    /\ response = NoResponse
    /\ result = NoScore
    /\ error = NoExc
    /\ cause = NoExc
    /\ raisedBy = "none"
    /\ calls = 0
    /\ waits = 0
    /\ slotLog = <<>>
    /\ input_prompt = NoPrompt
    /\ request = NoRequest
    /\ main_pc = "load"
    /\ disk \in {File(TRUE, m) : m \in PipelineMetrics}
    /\ output_exists = TRUE
    /\ eval_results = <<>>
    /\ exit_status = Running
    /\ writes = 0
    /\ calc_pc = "idle"
    /\ final_score = NoScore

\* a main that looks for the output file only after the evaluation
MainLoadLazy ==
    /\ main_pc = "load"
    /\ IF disk.exists
       THEN /\ eval_results' = disk.metrics
            /\ main_pc' = "evaluate"
            /\ UNCHANGED exit_status
       ELSE /\ main_pc' = "exit"
            /\ exit_status' = 1
            /\ UNCHANGED eval_results
    /\ UNCHANGED <<disk, output_exists, writes>>
    /\ UNCHANGED <<evalVars, calcVars>>

\* Lines 223-235 and 167-184: main loads eval-results.json and the output
\* file; a missing file raises FileNotFoundError, handled at lines 253-255.
MainLoad ==
    /\ main_pc = "load"
    /\ IF disk.exists /\ output_exists
       THEN /\ eval_results' = disk.metrics
            /\ main_pc' = "evaluate"
            /\ UNCHANGED exit_status
       ELSE /\ main_pc' = "exit"
            /\ exit_status' = 1
            /\ UNCHANGED eval_results
    /\ UNCHANGED <<disk, output_exists, writes>>
    /\ UNCHANGED <<evalVars, calcVars>>

\* Lines 48-55: the credential check, before the try.
Start ==
    /\ main_pc = "evaluate"
    /\ pc = "start"
    /\ IF KeyMissing(api_key)
       THEN /\ pc' = "raised"
            /\ error' = ConfigErr
            /\ cause' = ConfigErr
            /\ raisedBy' = "config"
            /\ UNCHANGED input_prompt
       ELSE /\ pc' = "sampling"
            /\ input_prompt' = BuildPrompt(EvaluationPrompt, ResponseText, rubric_max_score)
            /\ UNCHANGED <<error, cause, raisedBy>>
    /\ UNCHANGED <<api_key, rubric_max_score, i, retry_count, scores, score_counts,
                   response, result, calls, waits, slotLog, request>>
    /\ UNCHANGED <<mainVars, calcVars>>

\* a failure that falls through to the majority check with the samples so far
RaiseDegraded(e, by) ==
    /\ pc' = (IF scores = <<>> THEN "raised" ELSE "check")
    /\ error' = Outer(e)
    /\ cause' = e
    /\ raisedBy' = by

\* An exception leaves the retry loop: re-raised by the handler of line 108
\* (or 150), then handled by the outermost handler.
Raise(e, by) ==
    /\ pc' = "raised"
    /\ error' = Outer(e)
    /\ cause' = e
    /\ raisedBy' = by

\* an attempt counter that is not reset for a new slot
SlotStartCountCarry(rc) == rc

\* retry_count = 0 at lines 78 and 120: the counter a slot starts with,
\* whatever the counter rc of the slot before
SlotStartCount(rc) == 0

\* a sample put in front of the list
RecordFront(s, x) == <<x>> \o s

\* scores.append(score)
Record(s, x) == Append(s, x)

\* a sleep placed before the test of line 103
WaitsAfterAlways(w, rc) == w + 1

\* Lines 103-106: the sleeps done once the rc-th parse failure of the slot
\* is handled; the last failure raises before the sleep.
WaitsAfter(w, rc) == IF rc = MaxRetries THEN w ELSE w + 1

\* One pass of the retry loop with response r, all but the bookkeeping of a
\* success: lines 80-111 and 122-153.  what names the slot in the message.
Attempt(r, what) ==
    LET o == RoundTrip(r, rubric_max_score) IN
    /\ retry_count < MaxRetries
    /\ response' = r
    /\ calls' = calls + 1
    /\ IF o.status = "score"
       THEN /\ scores' = Record(scores, o.score)
            /\ slotLog' = <<>>
            /\ UNCHANGED <<waits, error, cause, raisedBy>>
       ELSE IF Caught(o)
       THEN /\ slotLog' = Append(slotLog, "malformed")
            /\ UNCHANGED scores
            /\ retry_count' = retry_count + 1
            /\ waits' = WaitsAfter(waits, retry_count + 1)
            /\ IF retry_count + 1 = MaxRetries
               THEN Raise(ParseFailure(what, o.exc), "exhausted")
               ELSE UNCHANGED <<pc, error, cause, raisedBy>>
       ELSE /\ slotLog' = Append(slotLog, "failed")
            /\ Raise(o.exc, IF o.where = "call" THEN "service" ELSE "parser")
            /\ UNCHANGED <<scores, waits, retry_count>>

\* Lines 76-111: one round trip of sampling slot i.
Sample ==
    /\ pc = "sampling"
    /\ i < NumRuns
    /\ \E r \in Responses :
        /\ Attempt(r, "OpenAI evaluation")
        /\ IF RoundTrip(r, rubric_max_score).status = "score"
           THEN /\ i' = i + 1
                /\ retry_count' = IF i + 1 < NumRuns THEN SlotStartCount(retry_count) ELSE retry_count
                /\ pc' = IF i + 1 < NumRuns THEN "sampling" ELSE "check"
           ELSE UNCHANGED i
    /\ request' = SampleRequest(input_prompt)
    /\ UNCHANGED <<api_key, rubric_max_score, score_counts, result, input_prompt>>
    /\ UNCHANGED <<mainVars, calcVars>>

\* Lines 113-120.
CheckMajority ==
    /\ pc = "check"
    /\ score_counts' = Counter(scores)
    /\ IF NeedsTieBreak(scores, Counter(scores))
       THEN pc' = "tiebreak" /\ retry_count' = SlotStartCount(retry_count)
       ELSE pc' = "finalize" /\ UNCHANGED retry_count
    /\ UNCHANGED <<api_key, rubric_max_score, i, scores, response, result, error,
                   cause, raisedBy, calls, waits, slotLog, input_prompt, request>>
    /\ UNCHANGED <<mainVars, calcVars>>

\* Lines 122-153: one round trip of the tie-break slot.
TieBreak ==
    /\ pc = "tiebreak"
    /\ \E r \in Responses :
        /\ Attempt(r, "tie-breaker")
        /\ IF RoundTrip(r, rubric_max_score).status = "score"
           THEN /\ score_counts' = Recount(scores')
                /\ pc' = "finalize"
                /\ UNCHANGED retry_count
           ELSE UNCHANGED score_counts
    /\ request' = TieBreakRequest(input_prompt)
    /\ UNCHANGED <<api_key, rubric_max_score, i, result, input_prompt>>
    /\ UNCHANGED <<mainVars, calcVars>>

\* Lines 155-158.
Finalize ==
    /\ pc = "finalize"
    /\ result' = MostCommon(score_counts)
    /\ pc' = "returned"
    /\ UNCHANGED <<api_key, rubric_max_score, i, retry_count, scores, score_counts,
                   response, error, cause, raisedBy, calls, waits, slotLog,
                   input_prompt, request>>
    /\ UNCHANGED <<mainVars, calcVars>>

\* a main that puts the new entry in front of the metrics
MainRecordFront ==
    /\ main_pc = "evaluate"
    /\ pc = "returned"
    /\ eval_results' = <<Metric("llm_judge_score", "Float", result)>> \o eval_results
    /\ disk' = File(TRUE, eval_results')
    /\ writes' = writes + 1
    /\ main_pc' = "done"
    /\ exit_status' = 0
    /\ UNCHANGED output_exists
    /\ UNCHANGED <<evalVars, calcVars>>

\* Lines 238-251: the score is appended to the loaded metrics and the file
\* is rewritten with them.
MainRecord ==
    /\ main_pc = "evaluate"
    /\ pc = "returned"
    /\ eval_results' = Append(eval_results, Metric("llm_judge_score", "Float", result))
    /\ disk' = File(TRUE, eval_results')
    /\ writes' = writes + 1
    /\ main_pc' = "done"
    /\ exit_status' = 0
    /\ UNCHANGED output_exists
    /\ UNCHANGED <<evalVars, calcVars>>

\* a failure path that still records a score of 0
MainFailRecordsZero ==
    /\ main_pc = "evaluate"
    /\ pc = "raised"
    /\ eval_results' = Append(eval_results, Metric("llm_judge_score", "Float", 0))
    /\ disk' = File(TRUE, eval_results')
    /\ writes' = writes + 1
    /\ main_pc' = "exit"
    /\ exit_status' = 1
    /\ UNCHANGED output_exists
    /\ UNCHANGED <<evalVars, calcVars>>

\* Lines 253-255: the exception of the evaluation is printed and main exits.
MainFail ==
    /\ main_pc = "evaluate"
    /\ pc = "raised"
    /\ main_pc' = "exit"
    /\ exit_status' = 1
    /\ UNCHANGED <<disk, output_exists, eval_results, writes>>
    /\ UNCHANGED <<evalVars, calcVars>>

\* main of calculate_final_scores_vibes.py, run for one of the eval names on
\* the file that the judge step has completed: the final score is appended
\* as the entry "score" (held as the sum over 4), or the step exits with 1.
CalcMain ==
    /\ main_pc = "done"
    /\ calc_pc = "idle"
    /\ \E eval_name \in EvalNames :
         LET c == CalculateScore(eval_name, disk.metrics) IN
         IF c.ok
         THEN /\ final_score' = c.sum
              /\ disk' = File(TRUE, Append(disk.metrics, Metric("score", "FloatOver4", c.sum)))
              /\ writes' = writes + 1
              /\ calc_pc' = "done"
         ELSE /\ calc_pc' = "exit"
              /\ UNCHANGED <<final_score, disk, writes>>
    /\ UNCHANGED <<main_pc, output_exists, eval_results, exit_status>>
    /\ UNCHANGED evalVars

Next ==
    \/ MainLoad
    \/ Start
    \/ Sample
    \/ CheckMajority
    \/ TieBreak
    \/ Finalize
    \/ MainRecord
    \/ MainFail

\* the judge step followed by the final-score step
PipelineNext ==
    \/ Next
    \/ CalcMain

Spec == Init /\ [][Next]_vars

\* The script runs to completion: each statement is followed by the next, and
\* every round trip returns.
FairSpec == FairInit /\ [][Next]_vars /\ WF_vars(Next)

PipelineSpec == PipelineInit /\ [][PipelineNext]_vars

TypeOK ==
    /\ pc \in {"start", "sampling", "check", "tiebreak", "finalize", "returned", "raised"}
    /\ i \in 0 .. NumRuns
    /\ retry_count \in 0 .. MaxRetries
    /\ Len(scores) <= NumRuns + 1
    /\ calls \in 0 .. (NumRuns + 1) * MaxRetries
    /\ calc_pc \in {"idle", "done", "exit"}

\* ------------------------------------------------------- claim vocabulary
First3(s) == SubSeq(s, 1, 3)
PairwiseDistinct(s) == \A a, b \in DOMAIN s : a # b => s[a] # s[b]
FirstIndex(s, v) == CHOOSE k \in DOMAIN s : s[k] = v /\ \A h \in 1 .. (k - 1) : s[h] # v
Range(s) == {s[k] : k \in DOMAIN s}
Returned == pc = "returned"
\* this step issues a round trip
Issues == calls' = calls + 1
\* judge text that does not parse: not JSON, or a score that is no number
Unparseable(r) == r.kind \in {"not_json", "str_score"}
\* a response that carries a score
Valid(r) == r.kind \in {"number", "no_score"}
\* the failure detail that parsing r raises
Detail(r) == RoundTrip(r, rubric_max_score).exc.msg
IsSuffix(t, m) == Len(t) <= Len(m) /\ SubSeq(m, Len(m) - Len(t) + 1, Len(m)) = t
\* nothing happens after the evaluation has failed or returned
Terminal == pc \in {"raised", "returned"}

\* C1: whenever a score is returned, 3 or 4 samples were collected, and 4
\* exactly when the first three scores are pairwise distinct.
C1_SampleCount ==
    Returned =>
        /\ Len(scores) \in {3, 4}
        /\ (Len(scores) = 4 <=> PairwiseDistinct(First3(scores)))

C1_Witness == Returned /\ Len(scores) = 4

\* C2: when some score occurs at least twice among the first three, no round
\* trip follows the third sample and that score is returned.
C2_MajorityNoTieBreak ==
    /\ pc = "tiebreak" => PairwiseDistinct(scores)
    /\ (Len(scores) >= 3 /\ ~PairwiseDistinct(First3(scores))) =>
            /\ Len(scores) = 3
            /\ slotLog = <<>>
            /\ pc \in {"check", "finalize", "returned"}
            /\ Returned =>
                 /\ Count(First3(scores), result) >= 2
                 /\ \A v \in Range(scores) : v # result => Count(scores, v) < Count(scores, result)

C2_Witness ==
    /\ Returned
    /\ rubric_max_score = 2
    /\ scores = <<Fix(2), Fix(2), Fix(1)>>
    /\ result = Fix(2)
    /\ calls = 3

\* C3: when the first three scores are pairwise distinct, exactly one more
\* sample is obtained under the same retry limit and appended as the 4th,
\* and the score returned is counted over all four: a 4th score equal to one
\* of the first three is the score returned.
C3_TieBreakRound ==
    /\ [](pc = "tiebreak" => Len(scores) = 3 /\ retry_count = Len(slotLog) /\ retry_count < MaxRetries)
    /\ []((Returned /\ PairwiseDistinct(First3(scores))) =>
            /\ Len(scores) = 4
            /\ score_counts = Counter(scores)
            /\ (scores[4] \in Range(First3(scores)) => result = scores[4]))
    /\ [][(pc = "tiebreak" /\ scores' # scores) =>
            /\ Len(scores') = 4
            /\ First3(scores') = scores
            /\ pc' = "finalize"]_vars

C3_Witness ==
    /\ Returned
    /\ scores = <<Fix(0), Fix(1), Fix(2), Fix(1)>>
    /\ result = Fix(1)

\* C4: the score returned has the highest count over all samples, and among
\* the scores with that count it is the one first seen; four pairwise
\* distinct samples return the first sample's score.
C4_FirstSeenMode ==
    Returned =>
        /\ result \in Range(scores)
        /\ \A v \in Range(scores) :
             /\ Count(scores, v) <= Count(scores, result)
             /\ Count(scores, v) = Count(scores, result) =>
                    FirstIndex(scores, result) <= FirstIndex(scores, v)
        /\ (Len(scores) = 4 /\ PairwiseDistinct(scores)) => result = scores[1]

C4_Witness == Returned /\ Len(scores) = 4 /\ PairwiseDistinct(scores) /\ result = scores[1]

\* C5: a numeric score s is recorded as 0 when s < 0, as M when s > M and as
\* s otherwise, in the round trip that received it, without a retry, a wait
\* or a failure; every recorded score lies in [0, M].
C5_Clamp ==
    /\ [](\A k \in DOMAIN scores : scores[k] \in 0 .. Fix(rubric_max_score))
    /\ [][(Issues /\ response'.kind = "number") =>
            /\ scores' = Append(scores,
                    IF response'.score < 0 THEN 0
                    ELSE IF response'.score > Fix(rubric_max_score) THEN Fix(rubric_max_score)
                    ELSE response'.score)
            /\ retry_count' <= retry_count
            /\ waits' = waits
            /\ pc' # "raised"]_vars

C5_Witness ==
    /\ slotLog = <<>>
    /\ response.kind = "number"
    /\ response.score < 0
    /\ Len(scores) = 2
    /\ scores[2] = 0
    /\ scores[1] = Fix(rubric_max_score)
    /\ pc = "sampling"

\* C6: the 5th consecutive unparseable response of a slot fails the
\* evaluation with the exhaustion failure, which carries the detail of that
\* last parse failure; the slot issued exactly 5 round trips and nothing is
\* issued afterwards.
C6_Exhaustion ==
    /\ [][(Issues /\ Unparseable(response') /\ Len(slotLog) = 4) =>
            /\ pc' = "raised"
            /\ raisedBy' = "exhausted"
            /\ cause' = ParseFailure(IF pc = "tiebreak" THEN "tie-breaker" ELSE "OpenAI evaluation",
                                     RoundTrip(response', rubric_max_score).exc)
            /\ IsSuffix(Detail(response'), error'.msg)
            /\ \E k \in DOMAIN error'.msg : error'.msg[k] = "Failed to parse "
            /\ Len(slotLog') = 5]_vars
    /\ [](raisedBy = "exhausted" =>
            /\ pc = "raised"
            /\ Len(slotLog) = 5
            /\ \A k \in DOMAIN slotLog : slotLog[k] = "malformed")
    /\ [][Terminal => evalVars' = evalVars]_vars

C6_Witness ==
    /\ raisedBy = "exhausted"
    /\ Len(scores) = 3
    /\ calls = 8
    /\ response.kind = "not_json"

\* C7: k unparseable responses (1 <= k <= 4) leave the slot open, and a valid
\* response after them is recorded as the slot's sample by round trip k + 1,
\* after which the engine moves to the next slot or to the majority check.
C7_RetryThenSuccess ==
    /\ [][(Issues /\ Unparseable(response') /\ Len(slotLog) < 4) =>
            /\ pc' = pc
            /\ i' = i
            /\ scores' = scores
            /\ retry_count' = retry_count + 1
            /\ slotLog' = Append(slotLog, "malformed")]_vars
    /\ [][(Issues /\ Valid(response') /\ retry_count \in 1 .. 4) =>
            /\ Len(slotLog) = retry_count
            /\ scores' = Append(scores, RoundTrip(response', rubric_max_score).score)
            /\ slotLog' = <<>>
            /\ pc = "sampling" => /\ i' = i + 1
                                  /\ pc' = (IF i < 2 THEN "sampling" ELSE "check")
                                  /\ (i < 2 => retry_count' = 0)
            /\ pc = "tiebreak" => pc' = "finalize"]_vars

C7_Witness ==
    /\ Returned
    /\ calls = Len(scores) + 1
    /\ waits = 1

\* C8: a failure of the service call is never retried: the round trip that
\* meets it ends the evaluation with a failure and without a wait, and no
\* round trip follows.
C8_ServiceErrorFatal ==
    /\ [][(Issues /\ response'.kind = "api_error") =>
            /\ pc' = "raised"
            /\ raisedBy' = "service"
            /\ error' # NoExc
            /\ waits' = waits
            /\ scores' = scores]_vars
    /\ [][pc = "raised" => (calls' = calls /\ waits' = waits /\ pc' = pc)]_vars

C8_Witness ==
    /\ raisedBy = "service"
    /\ pc = "raised"
    /\ Len(scores) = 3
    /\ retry_count = 2
    /\ calls = 6

\* C9 as stated: the caller receives the very failure that the service call
\* produced.
C9_Unchanged == raisedBy = "service" => error = cause

\* C9 amended: the caller receives the service failure itself only when its
\* message contains OPENAI_API_KEY; otherwise it receives a ValueError whose
\* message is "OpenAI evaluation failed: " followed by the service failure's
\* message.  It is never the credential failure.
C9_Rewrapped ==
    raisedBy = "service" =>
        /\ cause = response.exc
        /\ MentionsKey(cause) => error = cause
        /\ ~MentionsKey(cause) =>
              /\ error.type = "ValueError"
              /\ error.msg = <<"OpenAI evaluation failed: ">> \o cause.msg
        /\ error # ConfigErr

C9_Witness ==
    /\ raisedBy = "service"
    /\ cause.type = "APIConnectionError"
    /\ error.type = "ValueError"
    /\ error.msg = <<"OpenAI evaluation failed: ", "Connection error.">>

\* C10: with the credential unset or empty the evaluation fails with the
\* credential failure, having issued no round trip and no wait.
C10_ConfigError ==
    (api_key \in {"unset", ""} /\ pc # "start") =>
        /\ pc = "raised"
        /\ raisedBy = "config"
        /\ error = ConfigErr
        /\ calls = 0
        /\ waits = 0
        /\ response = NoResponse

C10_Witness == api_key = "" /\ pc = "raised" /\ error = ConfigErr

\* a whole number of the fixed-point representation
Integral(x) == x % Den = 0
LastOf(s) == s[Len(s)]
\* judge output that does not have the expected structure
NotExpected(r) == r.kind \in {"no_content", "not_json", "not_object", "null_score", "str_score"}

\* C11: a failure leaves no score: a score exists only once the evaluation
\* has returned, without a failure, from the 3 samples of a majority or the
\* 4 samples of a tie-break.
C11_NoPartialScore ==
    /\ error # NoExc <=> pc = "raised"
    /\ pc = "raised" => result = NoScore
    /\ result # NoScore =>
          /\ Returned
          /\ Len(scores) >= 3
          /\ PairwiseDistinct(First3(scores)) => Len(scores) = 4

C11_Witness ==
    /\ pc = "raised"
    /\ Len(scores) = 3
    /\ raisedBy = "service"
    /\ result = NoScore
    /\ main_pc = "exit"

\* C12 as stated: a JSON object without "score" yields no sample and uses up
\* one attempt of the slot.
C12_AbsentIsMalformed ==
    [][(Issues /\ response'.kind = "no_score") =>
            /\ scores' = scores
            /\ retry_count' = retry_count + 1]_vars

\* C12 amended: a JSON object without "score" is taken as a score of 0: it
\* yields the sample 0 in the round trip that received it and uses up no
\* attempt, wait or failure.
C12_AbsentIsZero ==
    [][(Issues /\ response'.kind = "no_score") =>
            /\ scores' = Append(scores, 0)
            /\ retry_count' <= retry_count
            /\ slotLog' = <<>>
            /\ waits' = waits
            /\ pc' \in {"sampling", "check", "finalize"}]_vars

C12_Witness ==
    /\ response.kind = "no_score"
    /\ slotLog = <<>>
    /\ scores = <<0>>
    /\ calls = 1
    /\ pc = "sampling"

\* C13 as stated: every response without the expected structure is retried
\* while the slot has attempts left, and none fails the evaluation at once.
C13_AllMalformedRetried ==
    [][(Issues /\ NotExpected(response') /\ Len(slotLog) < 4) =>
            /\ pc' = pc
            /\ retry_count' = retry_count + 1]_vars

\* C14 as stated: every sample score and the score returned are integers.
C14_Integer ==
    /\ \A k \in DOMAIN scores : Integral(scores[k])
    /\ Returned => Integral(result)

\* C14 amended: a numeric score is recorded unrounded: the sample is integral
\* exactly when the judge's number is integral or outside [0, M], a
\* non-integral sample is a number the judge gave strictly inside (0, M), and
\* the score returned is one of the samples.
C14_Unrounded ==
    /\ [](\A k \in DOMAIN scores :
            \/ Integral(scores[k])
            \/ scores[k] \in RawScores /\ 0 < scores[k] /\ scores[k] < Fix(rubric_max_score))
    /\ [](Returned => result \in Range(scores))
    /\ [][(Issues /\ response'.kind = "number") =>
            (Integral(LastOf(scores')) <=>
                \/ Integral(response'.score)
                \/ response'.score \notin 0 .. Fix(rubric_max_score))]_vars

C14_Witness ==
    /\ Returned
    /\ rubric_max_score = 2
    /\ result = Fix(1) + 1
    /\ ~Integral(result)

\* C16: when the evaluation fails, main writes nothing: eval-results.json
\* keeps its content, no llm_judge_score entry exists, and main completes
\* with status 1 and no other.
C16_FailureRecordsNothing ==
    /\ [](pc = "raised" =>
            /\ main_pc \in {"evaluate", "exit"}
            /\ exit_status \in {Running, 1}
            /\ main_pc = "exit" <=> exit_status = 1
            /\ writes = 0
            /\ disk.exists
            /\ disk.metrics \in InitialMetrics
            /\ \A k \in DOMAIN disk.metrics : disk.metrics[k][1] # "llm_judge_score")
    /\ [][pc = "raised" => (disk' = disk /\ writes' = writes /\ exit_status' \in {exit_status, 1})]_vars

C16_Witness ==
    /\ pc = "raised"
    /\ raisedBy = "exhausted"
    /\ main_pc = "exit"
    /\ exit_status = 1
    /\ writes = 0

\* C17: round trips follow the slots in order: a sampling round trip of slot
\* i + 1 is issued with exactly i samples collected, a tie-break round trip
\* with exactly 3, a step issues at most one round trip, and a sample is
\* added only by a round trip, at the end of the sequence, as the score of
\* the response just received.  (The call of line 82 blocks, so a round trip
\* is over when the next statement runs.)
C17_Sequential ==
    [][/\ calls' \in {calls, calls + 1}
       /\ Issues =>
            \/ pc = "sampling" /\ Len(scores) = i /\ i < 3
            \/ pc = "tiebreak" /\ Len(scores) = 3 /\ i = 3
       /\ scores' # scores =>
            /\ Issues
            /\ Len(scores') = Len(scores) + 1
            /\ SubSeq(scores', 1, Len(scores)) = scores
            /\ LastOf(scores') = RoundTrip(response', rubric_max_score).score]_vars

C17_Witness ==
    /\ pc = "tiebreak"
    /\ slotLog = <<"malformed">>
    /\ calls = 5
    /\ scores = <<Fix(2), Fix(0), Fix(1)>>

\* the order of the control states
Rank(p) ==
    CASE p = "start" -> 0
      [] p = "sampling" -> 1
      [] p = "check" -> 2
      [] p = "tiebreak" -> 3
      [] p = "finalize" -> 4
      [] p = "returned" -> 5
      [] p = "raised" -> 5

\* C18: the control state never moves backwards; the tie-break is entered
\* only from the majority check and only when the three scores are pairwise
\* distinct, it is left only towards the end, and once the score is being
\* emitted no round trip, wait or sample follows.
C18_ForwardOnly ==
    [][/\ Rank(pc) <= Rank(pc')
       /\ pc = "check" => pc' \in {"check", "tiebreak", "finalize"}
       /\ (pc' = "tiebreak" /\ pc # "tiebreak") =>
            /\ pc = "check"
            /\ Len(scores) = 3
            /\ PairwiseDistinct(scores)
       /\ pc = "tiebreak" => pc' \in {"tiebreak", "finalize", "raised"}
       /\ pc' = "sampling" => pc \in {"start", "sampling"}
       /\ pc \in {"finalize", "returned"} =>
            /\ pc' \in {"finalize", "returned"}
            /\ calls' = calls
            /\ waits' = waits
            /\ scores' = scores]_vars

C18_Witness ==
    /\ pc = "finalize"
    /\ Len(scores) = 4
    /\ calls = 4
    /\ score_counts = Counter(scores)

\* C19: a step waits exactly when it received an unparseable response that
\* is followed by another attempt of the slot, and then once; so the waits
\* are the round trips that neither gave a sample nor ended the evaluation,
\* and a slot performs at most 4.
C19_Waits ==
    /\ [][waits' = waits + (IF Issues /\ Unparseable(response') /\ pc' # "raised" THEN 1 ELSE 0)]_vars
    /\ [](waits = calls - Len(scores)
                    - (IF raisedBy \in {"exhausted", "service", "parser"} THEN 1 ELSE 0))
    /\ [](pc \in {"sampling", "tiebreak"} => Len(slotLog) <= 4)
    /\ [](raisedBy = "exhausted" => Len(slotLog) = 5)

C19_Witness ==
    /\ raisedBy = "exhausted"
    /\ waits = 4
    /\ calls = 5
    /\ scores = <<>>

\* C20: a started evaluation ends, with a score or with a failure, and never
\* issues more than 20 round trips or 16 waits.
C20_Terminates ==
    /\ (main_pc = "evaluate") ~> Terminal
    /\ [](calls <= 20 /\ waits <= 16)

C20_Witness ==
    /\ Returned
    /\ calls = 20
    /\ waits = 16
    /\ Len(scores) = 4

\* C21 as stated: the outcome depends on the parsed scores alone (the score
\* returned and the number of samples are those that the score sequence
\* fixes), and a response without the expected structure reaches the caller
\* only as the exhaustion failure.
C21_MalformedInvisible ==
    /\ Returned =>
          /\ result = MostCommon(Counter(scores))
          /\ Len(scores) = (IF PairwiseDistinct(First3(scores)) THEN 4 ELSE 3)
    /\ (pc = "raised" /\ NotExpected(response)) => raisedBy = "exhausted"

\* C22: every slot starts with the attempt counter at 0 and counts only its
\* own round trips, so each slot absorbs up to 4 unparseable responses
\* whatever the slots before it absorbed.
C22_BudgetPerSlot ==
    /\ [](pc \in {"sampling", "tiebreak"} =>
            /\ retry_count = Len(slotLog)
            /\ retry_count <= 4)
    /\ [][(Issues /\ Unparseable(response') /\ Len(slotLog) < 4) =>
            (pc' = pc /\ Len(slotLog') <= 4)]_vars
    /\ [][(Issues /\ Valid(response') /\ pc' \in {"sampling", "tiebreak"}) => retry_count' = 0]_vars
    /\ [][(pc = "check" /\ pc' = "tiebreak") => retry_count' = 0]_vars

C22_Witness ==
    /\ pc = "finalize"
    /\ waits = 16
    /\ calls = 20
    /\ Len(scores) = 4

\* C23: the score returned is the score of a collected sample, no score
\* occurs more often among the samples, and it lies in [0, M].
C23_ResultIsASample ==
    Returned =>
        /\ \E k \in DOMAIN scores : scores[k] = result
        /\ \A k \in DOMAIN scores : Count(scores, scores[k]) <= Count(scores, result)
        /\ 0 <= result
        /\ result <= Fix(rubric_max_score)

C23_Witness ==
    /\ Returned
    /\ Len(scores) = 4
    /\ result = Fix(rubric_max_score)
    /\ Count(scores, result) = 2

\* C24: every round trip sends one user message holding the prompt built
\* once from the rubric, the output instructions and the text, to the model
\* gpt-4o at temperature 0.9; a later round trip repeats the request of the
\* one before, and the prompt does not change once built.
C24_SameRequest ==
    /\ [][Issues =>
            /\ request'.model = "gpt-4o"
            /\ request'.temperature = "0.9"
            /\ Len(request'.messages) = 1
            /\ request'.messages[1].role = "user"
            /\ request'.messages[1].content =
                   [prompt |-> EvaluationPrompt, instructions |-> rubric_max_score, text |-> ResponseText]
            /\ calls > 0 => request' = request]_vars
    /\ [][input_prompt # NoPrompt => input_prompt' = input_prompt]_vars
    /\ [][request' # request => Issues]_vars

C24_Witness ==
    /\ pc = "tiebreak"
    /\ Len(slotLog) = 2
    /\ calls = 7
    /\ request = SampleRequest(input_prompt)

\* C25: after a successful evaluation main rewrites eval-results.json once,
\* with the entries it had, in their order, followed by the one entry
\* ["llm_judge_score", {"Float": score}] for the score returned; it never
\* takes the failure exit.
C25_AppendsOneEntry ==
    /\ [][(main_pc = "evaluate" /\ main_pc' # "evaluate") =>
            IF Returned
            THEN /\ main_pc' = "done"
                 /\ exit_status' = 0
                 /\ writes' = writes + 1
                 /\ disk'.exists
                 /\ disk'.metrics = Append(disk.metrics, <<"llm_judge_score", "Float", result>>)
            ELSE main_pc' = "exit"]_vars
    /\ []((main_pc = "done" /\ calc_pc = "idle") =>
            /\ Returned
            /\ writes = 1
            /\ Len(disk.metrics) >= 1
            /\ LastOf(disk.metrics) = <<"llm_judge_score", "Float", result>>
            /\ SubSeq(disk.metrics, 1, Len(disk.metrics) - 1) \in InitialMetrics)

C25_Witness ==
    /\ main_pc = "done"
    /\ calc_pc = "idle"
    /\ exit_status = 0
    /\ Len(disk.metrics) = 3
    /\ disk.metrics[1][1] = "used_fetch_tool"
    /\ disk.metrics[3] = <<"llm_judge_score", "Float", Fix(1) + 1>>

\* C28: with eval-results.json or the output file missing, main ends with
\* status 1 before the evaluation starts: no round trip, no request, no
\* write; the evaluation runs only once both files were found.
C28_LoadFirst ==
    /\ (~disk.exists \/ ~output_exists) =>
          /\ pc = "start"
          /\ calls = 0
          /\ waits = 0
          /\ request = NoRequest
          /\ writes = 0
          /\ main_pc \in {"load", "exit"}
          /\ main_pc = "exit" <=> exit_status = 1
          /\ main_pc = "load" <=> exit_status = Running
    /\ pc # "start" => (disk.exists /\ output_exists /\ main_pc # "load")

C28_Witness ==
    /\ disk.exists
    /\ ~output_exists
    /\ main_pc = "exit"
    /\ exit_status = 1
    /\ calls = 0

\* the llm_judge_score entries of a metrics list, oldest first
JudgeEntries(m) == SelectSeq(m, LAMBDA e : e[1] = "llm_judge_score")
\* the step on which the judge step records its score
Records == main_pc = "evaluate" /\ main_pc' = "done"
\* the step on which the final score is calculated
Calculates == calc_pc = "idle" /\ calc_pc' = "done"

\* C26: recording is not idempotent.  A successful run on a file that holds
\* n llm_judge_score entries leaves n + 1 of them, the new one last and the
\* older ones untouched; the lookup of the final-score step returns what the
\* oldest entry holds, so that with an earlier entry in the file the final
\* score is the one calculated before the re-judging.
C26_OldestEntryWins ==
    /\ [][Records =>
            /\ JudgeEntries(disk'.metrics) =
                 Append(JudgeEntries(disk.metrics), Metric("llm_judge_score", "Float", result))
            /\ GetMetricValue(disk'.metrics, "llm_judge_score") =
                 JudgeEntries(disk'.metrics)[1][3]
            /\ (JudgeEntries(disk.metrics) # <<>> =>
                   /\ GetMetricValue(disk'.metrics, "llm_judge_score") =
                        GetMetricValue(disk.metrics, "llm_judge_score")
                   /\ \A n \in EvalNames :
                        CalculateScore(n, disk'.metrics) = CalculateScore(n, disk.metrics))]_vars
    /\ [][Calculates =>
            /\ final_score' = JudgeEntries(disk.metrics)[1][3] + Fix(1) + Fix(1)
            /\ (Len(JudgeEntries(disk.metrics)) > 1 =>
                   final_score' = PriorScore(1) + Fix(1) + Fix(1))]_vars

C26_Witness ==
    /\ calc_pc = "done"
    /\ Len(JudgeEntries(disk.metrics)) = 2
    /\ JudgeEntries(disk.metrics)[1][3] = Fix(0)
    /\ JudgeEntries(disk.metrics)[2][3] = Fix(2)
    /\ result = Fix(2)
    /\ final_score = Fix(2)

\* C27: for blog_summary and restaurant_research the sum of llm_judge_score,
\* used_fetch_tool and valid_markdown_format is at most 4, the final score
\* at most 1.0, whatever rubric maximum the judge step was given.
C27_AtMostFour == calc_pc = "done" => final_score <= Fix(4)

====
